---- MODULE Spec2Model ----
(***************************************************************************)
(* Model of rust_calculator/src/main.rs: the evaluator parse_and_calculate *)
(* and the interactive loop of main.                                       *)
(*                                                                         *)
(* A Rust String / &str is a sequence of one-character strings.            *)
(* An f64 is a record [cls, neg, n, d]: cls is "fin" (the value            *)
(* (-1)^neg * n/d in lowest terms, so that +0 and -0 are distinct),        *)
(* "inf" (signed infinity) or "nan".  Arithmetic on these records follows  *)
(* IEEE-754 for signs, zeros, infinities and NaN; finite results are kept  *)
(* as exact rationals (rounding and overflow of the 53-bit mantissa are    *)
(* outside the model).                                                     *)
(***************************************************************************)
EXTENDS Integers, Sequences, FiniteSets, TLC

VARIABLES pc, input, out, consumed, stream, result

vars == <<pc, input, out, consumed, stream, result>>

-----------------------------------------------------------------------------
(* Characters and strings                                                  *)

Digits == <<"0", "1", "2", "3", "4", "5", "6", "7", "8", "9">>

UpperCase == <<"A", "B", "C", "D", "E", "F", "G", "H", "I", "J", "K", "L", "M",
               "N", "O", "P", "Q", "R", "S", "T", "U", "V", "W", "X", "Y", "Z">>

LowerCase == <<"a", "b", "c", "d", "e", "f", "g", "h", "i", "j", "k", "l", "m",
               "n", "o", "p", "q", "r", "s", "t", "u", "v", "w", "x", "y", "z">>

IndexIn(c, s) == IF \E i \in DOMAIN s : s[i] = c
                 THEN CHOOSE i \in DOMAIN s : s[i] = c
                 ELSE 0

IsDigit(c) == IndexIn(c, Digits) # 0

DigitVal(c) == IndexIn(c, Digits) - 1

\* char::is_whitespace on the characters a console line can carry
IsWhitespace(c) == c \in {" ", "\t", "\n", "\r"}

\* char::to_lowercase
LowerChar(c) == IF IndexIn(c, UpperCase) # 0 THEN LowerCase[IndexIn(c, UpperCase)] ELSE c

\* str::to_lowercase
ToLowercase(s) == [i \in DOMAIN s |-> LowerChar(s[i])]

RECURSIVE TrimStart(_)
TrimStart(s) == IF s # <<>> /\ IsWhitespace(Head(s)) THEN TrimStart(Tail(s)) ELSE s

RECURSIVE TrimEnd(_)
TrimEnd(s) == IF s # <<>> /\ IsWhitespace(s[Len(s)])
              THEN TrimEnd(SubSeq(s, 1, Len(s) - 1))
              ELSE s

\* str::trim
Trim(s) == TrimEnd(TrimStart(s))

\* str::split_whitespace().collect(): the maximal runs of non-whitespace, in order
RECURSIVE SplitFrom(_, _, _)
SplitFrom(s, cur, acc) ==
    IF s = <<>>
    THEN IF cur = <<>> THEN acc ELSE Append(acc, cur)
    ELSE IF IsWhitespace(Head(s))
         THEN SplitFrom(Tail(s), <<>>, IF cur = <<>> THEN acc ELSE Append(acc, cur))
         ELSE SplitFrom(Tail(s), Append(cur, Head(s)), acc)

SplitWhitespace(s) == SplitFrom(s, <<>>, <<>>)

-----------------------------------------------------------------------------
(* f64 values                                                              *)

RECURSIVE Gcd(_, _)
Gcd(a, b) == IF b = 0 THEN a ELSE Gcd(b, a % b)

RECURSIVE Pow10(_)
Pow10(k) == IF k = 0 THEN 1 ELSE 10 * Pow10(k - 1)

NaN == [cls |-> "nan", neg |-> FALSE, n |-> 0, d |-> 1]

Inf(neg) == [cls |-> "inf", neg |-> neg, n |-> 1, d |-> 0]

\* the finite value (-1)^neg * n/d, in lowest terms
Fin(neg, n, d) == LET g == Gcd(n, d)
                  IN  [cls |-> "fin", neg |-> neg, n |-> n \div g, d |-> d \div g]

\* the numerator of a finite value, with its sign
SignedNum(v) == IF v.neg THEN 0 - v.n ELSE v.n

Abs(i) == IF i < 0 THEN 0 - i ELSE i

\* f64 == 0.0: true of +0 and of -0, false of NaN
IsZero(v) == v.cls = "fin" /\ v.n = 0

F64Neg(v) == IF v.cls = "nan" THEN v ELSE [v EXCEPT !.neg = ~v.neg]

\* f64 + f64
F64Add(a, b) ==
    IF a.cls = "nan" \/ b.cls = "nan" THEN NaN
    ELSE IF a.cls = "inf" /\ b.cls = "inf"
         THEN IF a.neg = b.neg THEN a ELSE NaN
    ELSE IF a.cls = "inf" THEN a
    ELSE IF b.cls = "inf" THEN b
    ELSE LET s == SignedNum(a) * b.d + SignedNum(b) * a.d
         IN  Fin(IF s = 0 THEN a.neg /\ b.neg ELSE s < 0, Abs(s), a.d * b.d)

\* f64 - f64
F64Sub(a, b) == F64Add(a, F64Neg(b))

\* f64 * f64
F64Mul(a, b) ==
    IF a.cls = "nan" \/ b.cls = "nan" THEN NaN
    ELSE IF (a.cls = "inf" /\ IsZero(b)) \/ (IsZero(a) /\ b.cls = "inf") THEN NaN
    ELSE IF a.cls = "inf" \/ b.cls = "inf" THEN Inf(a.neg # b.neg)
    ELSE Fin(a.neg # b.neg, a.n * b.n, a.d * b.d)

\* f64 / f64
F64Div(a, b) ==
    IF a.cls = "nan" \/ b.cls = "nan" THEN NaN
    ELSE IF a.cls = "inf" /\ b.cls = "inf" THEN NaN
    ELSE IF a.cls = "inf" THEN Inf(a.neg # b.neg)
    ELSE IF b.cls = "inf" THEN Fin(a.neg # b.neg, 0, 1)
    ELSE IF IsZero(b) THEN (IF IsZero(a) THEN NaN ELSE Inf(a.neg # b.neg))
    ELSE Fin(a.neg # b.neg, a.n * b.d, a.d * b.n)

-----------------------------------------------------------------------------
(* <f64 as FromStr>::from_str, the conversion behind str::parse::<f64>()   *)
(*   Float  ::= Sign? ( 'inf' | 'infinity' | 'nan' | Number )              *)
(*   Number ::= ( Digit+ | Digit+ '.' Digit* | Digit* '.' Digit+ ) Exp?    *)
(*   Exp    ::= [eE] Sign? Digit+                                          *)

ParseFail == [ok |-> FALSE, val |-> NaN]

ParseOk(v) == [ok |-> TRUE, val |-> v]

\* the scanner's state: where it is in Number, the digits read so far as the
\* integer mant, how many of them (nd) and how many after the point (fl), the
\* exponent's sign, value and digit count (ed)
ScanStart == [phase |-> "int", mant |-> 0, nd |-> 0, fl |-> 0,
              eneg |-> FALSE, e |-> 0, ed |-> 0]

ScanChar(st, c) ==
    IF st.phase = "int" /\ IsDigit(c)
        THEN [st EXCEPT !.mant = 10 * @ + DigitVal(c), !.nd = @ + 1]
    ELSE IF st.phase = "int" /\ c = "."
        THEN [st EXCEPT !.phase = "frac"]
    ELSE IF st.phase = "frac" /\ IsDigit(c)
        THEN [st EXCEPT !.mant = 10 * @ + DigitVal(c), !.nd = @ + 1, !.fl = @ + 1]
    ELSE IF st.phase \in {"int", "frac"} /\ c \in {"e", "E"}
        THEN [st EXCEPT !.phase = "expsign"]
    ELSE IF st.phase = "expsign" /\ c \in {"+", "-"}
        THEN [st EXCEPT !.phase = "exp", !.eneg = (c = "-")]
    ELSE IF st.phase \in {"expsign", "exp"} /\ IsDigit(c)
        THEN [st EXCEPT !.phase = "exp", !.e = 10 * @ + DigitVal(c), !.ed = @ + 1]
    ELSE [st EXCEPT !.phase = "invalid"]

RECURSIVE Scan(_, _)
Scan(s, st) == IF s = <<>> THEN st ELSE Scan(Tail(s), ScanChar(st, Head(s)))

\* mant * 10^exp10 as an f64
Scaled(negative, mant, exp10) ==
    IF exp10 >= 0 THEN Fin(negative, mant * Pow10(exp10), 1)
    ELSE Fin(negative, mant, Pow10(0 - exp10))

\* a Number needs a digit in its mantissa and, after an 'e', in its exponent
NumberOf(st, negative) ==
    IF st.nd > 0 /\ (st.phase \in {"int", "frac"} \/ (st.phase = "exp" /\ st.ed > 0))
    THEN ParseOk(Scaled(negative, st.mant, (IF st.eneg THEN 0 - st.e ELSE st.e) - st.fl))
    ELSE ParseFail

ParseNumber(s, negative) == NumberOf(Scan(s, ScanStart), negative)

\* 'nan', 'inf', 'infinity' in any letter case
ParseInfNan(s, negative) ==
    LET low == ToLowercase(s)
    IN  IF low = <<"n", "a", "n">> THEN ParseOk(NaN)
        ELSE IF low = <<"i", "n", "f">> \/ low = <<"i", "n", "f", "i", "n", "i", "t", "y">>
             THEN ParseOk(Inf(negative))
             ELSE ParseFail

ParseF64(s) ==
    IF s = <<>> THEN ParseFail
    ELSE LET negative == Head(s) = "-"
             body     == IF Head(s) \in {"+", "-"} THEN Tail(s) ELSE s
         IN  IF body = <<>> THEN ParseFail
             ELSE IF ParseNumber(body, negative).ok THEN ParseNumber(body, negative)
             ELSE ParseInfNan(body, negative)

-----------------------------------------------------------------------------
(* parse_and_calculate                                                     *)

\* Result<f64, String>: the Err strings are a format text and its one argument
Ok(v) == [ok |-> TRUE, val |-> v, msg |-> "", arg |-> <<>>]

Err(m, a) == [ok |-> FALSE, val |-> NaN, msg |-> m, arg |-> a]

FormatMsg == "Format should be: number operator number"

NotNumberMsg == "'{}' is not a valid number"

DivZeroMsg == "Cannot divide by zero!"

UnsupportedMsg == "Unsupported operator: {}"

RequiredParts == 3

\* Calculate with the operands of "-" exchanged
CalculateSwapped(operator, num1, num2) ==
    IF operator = <<"+">> THEN Ok(F64Add(num1, num2))
    ELSE IF operator = <<"-">> THEN Ok(F64Sub(num2, num1))
    ELSE IF operator = <<"*">> THEN Ok(F64Mul(num1, num2))
    ELSE IF operator = <<"/">>
         THEN IF IsZero(num2) THEN Err(DivZeroMsg, <<>>) ELSE Ok(F64Div(num1, num2))
    ELSE Err(UnsupportedMsg, operator)

\* Calculate with a fifth arm: "x" multiplies
CalculateTimesX(operator, num1, num2) ==
    IF operator = <<"+">> THEN Ok(F64Add(num1, num2))
    ELSE IF operator = <<"-">> THEN Ok(F64Sub(num1, num2))
    ELSE IF operator \in {<<"*">>, <<"x">>} THEN Ok(F64Mul(num1, num2))
    ELSE IF operator = <<"/">>
         THEN IF IsZero(num2) THEN Err(DivZeroMsg, <<>>) ELSE Ok(F64Div(num1, num2))
    ELSE Err(UnsupportedMsg, operator)

\* Calculate with the zero test on the left operand
CalculateLeftZero(operator, num1, num2) ==
    IF operator = <<"+">> THEN Ok(F64Add(num1, num2))
    ELSE IF operator = <<"-">> THEN Ok(F64Sub(num1, num2))
    ELSE IF operator = <<"*">> THEN Ok(F64Mul(num1, num2))
    ELSE IF operator = <<"/">>
         THEN IF IsZero(num1) THEN Err(DivZeroMsg, <<>>) ELSE Ok(F64Div(num1, num2))
    ELSE Err(UnsupportedMsg, operator)

\* match operator { ... }
Calculate(operator, num1, num2) ==
    IF operator = <<"+">> THEN Ok(F64Add(num1, num2))
    ELSE IF operator = <<"-">> THEN Ok(F64Sub(num1, num2))
    ELSE IF operator = <<"*">> THEN Ok(F64Mul(num1, num2))
    ELSE IF operator = <<"/">>
         THEN IF IsZero(num2) THEN Err(DivZeroMsg, <<>>) ELSE Ok(F64Div(num1, num2))
    ELSE Err(UnsupportedMsg, operator)

\* parse_and_calculate with the length test parts.len() < 3
ParseAndCalculateAtLeastThree(inp) ==
    LET parts == SplitWhitespace(inp)
    IN  IF Len(parts) < RequiredParts THEN Err(FormatMsg, <<>>)
        ELSE LET p1 == ParseF64(parts[1])
                 operator == parts[2]
                 p2 == ParseF64(parts[3])
             IN  IF ~p1.ok THEN Err(NotNumberMsg, parts[1])
                 ELSE IF ~p2.ok THEN Err(NotNumberMsg, parts[3])
                 ELSE Calculate(operator, p1.val, p2.val)

\* parse_and_calculate with the second error message naming parts[0]
ParseAndCalculateNamesLeft(inp) ==
    LET parts == SplitWhitespace(inp)
    IN  IF Len(parts) # RequiredParts THEN Err(FormatMsg, <<>>)
        ELSE LET p1 == ParseF64(parts[1])
                 operator == parts[2]
                 p2 == ParseF64(parts[3])
             IN  IF ~p1.ok THEN Err(NotNumberMsg, parts[1])
                 ELSE IF ~p2.ok THEN Err(NotNumberMsg, parts[1])
                 ELSE Calculate(operator, p1.val, p2.val)

\* parse_and_calculate with the right operand parsed before the left
ParseAndCalculateRightFirst(inp) ==
    LET parts == SplitWhitespace(inp)
    IN  IF Len(parts) # RequiredParts THEN Err(FormatMsg, <<>>)
        ELSE LET p1 == ParseF64(parts[1])
                 operator == parts[2]
                 p2 == ParseF64(parts[3])
             IN  IF ~p2.ok THEN Err(NotNumberMsg, parts[3])
                 ELSE IF ~p1.ok THEN Err(NotNumberMsg, parts[1])
                 ELSE Calculate(operator, p1.val, p2.val)

\* Rust indexes parts from 0; parts[k] is parts[k + 1] here
parse_and_calculate(inp) ==
    LET parts == SplitWhitespace(inp)
    IN  IF Len(parts) # RequiredParts THEN Err(FormatMsg, <<>>)
        ELSE LET p1 == ParseF64(parts[1])
                 operator == parts[2]
                 p2 == ParseF64(parts[3])
             IN  IF ~p1.ok THEN Err(NotNumberMsg, parts[1])
                 ELSE IF ~p2.ok THEN Err(NotNumberMsg, parts[3])
                 ELSE Calculate(operator, p1.val, p2.val)

-----------------------------------------------------------------------------
(* Inputs                                                                  *)

\* tokens that parse as f64
NumberTokens == { <<"5">>, <<"3">>, <<"1", "0">>, <<"4">>, <<"7">>, <<"1", "5">>,
                  <<"0">>, <<"-", "0">>, <<".", "5">>, <<"1", "e", "1">>,
                  <<"i", "n", "f">>, <<"N", "a", "N">> }

\* tokens that do not
WordTokens == { <<"a", "b", "c">>, <<".">>, <<"1", "e">> }

OperatorTokens == { <<"+">>, <<"-">>, <<"*">>, <<"/">> }

OtherTokens == { <<"%">>, <<"x">> }

Vocabulary == NumberTokens \cup WordTokens \cup OperatorTokens \cup OtherTokens

\* the tokens of the lines that do not have three tokens
ShortVocabulary == { <<"5">>, <<"+">>, <<"3">>, <<"2">>, <<"a", "b", "c">> }

MaxTokens == 5

TokenLists ==
    [1..RequiredParts -> Vocabulary]
    \cup UNION { [1..k -> ShortVocabulary] : k \in (0..MaxTokens) \ {RequiredParts} }

\* how a line lays its tokens out: the whitespace before, between and after them
Layouts == { [lead |-> <<>>, sep |-> <<" ">>, trail |-> <<>>],
             [lead |-> <<" ">>, sep |-> <<" ", "\t">>, trail |-> <<"\r", "\n">>] }

RECURSIVE JoinFrom(_, _)
JoinFrom(ts, sep) == IF ts = <<>> THEN <<>>
                     ELSE IF Len(ts) = 1 THEN ts[1]
                     ELSE ts[1] \o sep \o JoinFrom(Tail(ts), sep)

Join(ts, lay) == lay.lead \o JoinFrom(ts, lay.sep) \o lay.trail

Plain == [lead |-> <<>>, sep |-> <<" ">>, trail |-> <<>>]

Line(ts) == Join(ts, Plain)

EvalInputs == { Join(ts, lay) : ts \in TokenLists, lay \in Layouts }

QuitWord == <<"q", "u", "i", "t">>

\* the lines a user types at the prompt, without their line terminator
LoopLines == { Line(<< <<"5">>, <<"+">>, <<"3">> >>),
               Line(<< <<"1", "0">>, <<"/">>, <<"0">> >>),
               Line(<< <<"a", "b", "c">>, <<"+">>, <<"3">> >>),
               Line(<< <<"5">>, <<"%">>, <<"3">> >>),
               Line(<< <<"5">>, <<"+">> >>),
               <<>>,
               QuitWord,
               <<"Q", "U", "I", "T">>,
               <<" ", "Q", "u", "i", "t", " ">>,
               Line(<< QuitWord, <<"n", "o", "w">> >>),
               <<"q">> }

MaxReads == 3

-----------------------------------------------------------------------------
(* The evaluator called on one input, as the unit tests call it            *)

NoResult == [ok |-> FALSE, val |-> NaN, msg |-> "(none)", arg |-> <<>>]

InitEval ==
    /\ pc = "call"
    /\ input \in EvalInputs
    /\ result = NoResult
    /\ out = <<>>
    /\ consumed = <<>>
    /\ stream = "open"

Call ==
    /\ pc = "call"
    /\ result' = parse_and_calculate(input)
    /\ pc' = "returned"
    /\ UNCHANGED <<input, out, consumed, stream>>

NextEval == Call

SpecEval == InitEval /\ [][NextEval]_vars

-----------------------------------------------------------------------------
(* main: the interactive loop                                              *)

Printed(kind, res) == [kind |-> kind, res |-> res]

\* after the two banner lines
Init ==
    /\ pc = "prompt"
    /\ input = <<>>
    /\ result = NoResult
    /\ out = << Printed("Welcome", NoResult), Printed("Usage", NoResult) >>
    /\ consumed = <<>>
    /\ stream = "open"

\* println!("\nEnter your calculation:")
Prompt ==
    /\ pc = "prompt"
    /\ out' = Append(out, Printed("Prompt", NoResult))
    /\ pc' = "read"
    /\ UNCHANGED <<input, consumed, stream, result>>

\* the buffer declared before the loop: it keeps the lines read earlier
StaleBuffer == input

\* let mut input = String::new()
FreshBuffer == <<>>

\* read_line appends one line, terminator included, to the buffer
ReadLine(line) ==
    /\ pc = "read"
    /\ stream = "open"
    /\ Len(consumed) < MaxReads
    /\ input' = FreshBuffer \o line \o <<"\n">>
    /\ consumed' = Append(consumed, line)
    /\ pc' = "check"
    /\ UNCHANGED <<out, stream, result>>

\* read_line at the end of the stream: Ok(0), nothing appended
ReadEof ==
    /\ pc = "read"
    /\ stream \in {"open", "eof"}
    /\ Len(consumed) < MaxReads
    /\ input' = FreshBuffer
    /\ consumed' = Append(consumed, <<>>)
    /\ stream' = "eof"
    /\ pc' = "check"
    /\ UNCHANGED <<out, result>>

\* read_line returns Err: .expect("Failed to read line") panics
ReadFault ==
    /\ pc = "read"
    /\ stream = "open"
    /\ stream' = "fault"
    /\ pc' = "panicked"
    /\ UNCHANGED <<input, out, consumed, result>>

\* the comparison without to_lowercase()
IsQuitCaseSensitive(s) == s = QuitWord

\* input.to_lowercase() == "quit", input being the trimmed line
IsQuit(s) == ToLowercase(s) = QuitWord

\* println!("Goodbye!"); break
Quit ==
    /\ pc = "check"
    /\ IsQuit(Trim(input))
    /\ out' = Append(out, Printed("Goodbye", NoResult))
    /\ pc' = "done"
    /\ UNCHANGED <<input, consumed, stream, result>>

\* parse_and_calculate(input).unwrap(): an Err panics
AfterMatchUnwrap(res) == IF res.ok THEN "prompt" ELSE "panicked"

\* both arms of the match print and fall through to the top of the loop
AfterMatch(res) == "prompt"

\* match parse_and_calculate(input) { Ok => "Result: ..", Err => "Error: .." }
Evaluate ==
    /\ pc = "check"
    /\ ~IsQuit(Trim(input))
    /\ LET res == parse_and_calculate(Trim(input))
       IN  /\ result' = res
           /\ out' = Append(out, Printed(IF res.ok THEN "Result" ELSE "Error", res))
           /\ pc' = AfterMatch(res)
    /\ UNCHANGED <<input, consumed, stream>>

Next ==
    \/ Prompt
    \/ \E line \in LoopLines : ReadLine(line)
    \/ ReadEof
    \/ ReadFault
    \/ Quit
    \/ Evaluate

Spec == Init /\ [][Next]_vars

-----------------------------------------------------------------------------
(* Properties of parse_and_calculate, under SpecEval                       *)

Returned == pc = "returned"

\* the tokens of the input under evaluation
Parts == SplitWhitespace(input)

IsTriple == Len(Parts) = RequiredParts

LeftParses == ParseF64(Parts[1]).ok

RightParses == ParseF64(Parts[3]).ok

Left == ParseF64(Parts[1]).val

Right == ParseF64(Parts[3]).val

Supported == Parts[2] \in OperatorTokens

Finite(v) == v.cls = "fin"

Whole(k) == [cls |-> "fin", neg |-> FALSE, n |-> k, d |-> 1]

\* r is the rational a <op> b, stated on numerators and denominators
RationalResult(op, a, b, r) ==
    /\ Finite(r)
    /\ r.d > 0
    /\ op = <<"+">> => SignedNum(r) * a.d * b.d = (SignedNum(a) * b.d + SignedNum(b) * a.d) * r.d
    /\ op = <<"-">> => SignedNum(r) * a.d * b.d = (SignedNum(a) * b.d - SignedNum(b) * a.d) * r.d
    /\ op = <<"*">> => SignedNum(r) * a.d * b.d = SignedNum(a) * SignedNum(b) * r.d
    /\ op = <<"/">> => SignedNum(r) * a.d * SignedNum(b) = SignedNum(a) * b.d * r.d

\* r is a <op> b when an operand is an infinity or NaN
SpecialResult(op, a, b, r) ==
    /\ op = <<"+">> => r = F64Add(a, b)
    /\ op = <<"-">> => r = F64Sub(a, b)
    /\ op = <<"*">> => r = F64Mul(a, b)
    /\ op = <<"/">> => r = F64Div(a, b)

Example(a, op, b) == Line(<<a, op, b>>)

\* C1: a line of three tokens <a> <op> <b>, a and b numbers, op one of + - * /
\* and b not 0 under /, evaluates to Ok(a op b); "5 + 3" gives 8, "10 - 4"
\* gives 6, "3 * 7" gives 21 and "15 / 3" gives 5.
C1_WellFormedComputes ==
    Returned =>
        /\ (IsTriple /\ LeftParses /\ RightParses /\ Supported
                /\ ~(Parts[2] = <<"/">> /\ IsZero(Right)))
            => /\ result.ok
               /\ IF Finite(Left) /\ Finite(Right)
                  THEN RationalResult(Parts[2], Left, Right, result.val)
                  ELSE SpecialResult(Parts[2], Left, Right, result.val)
        /\ input = Example(<<"5">>, <<"+">>, <<"3">>) => result = Ok(Whole(8))
        /\ input = Example(<<"1", "0">>, <<"-">>, <<"4">>) => result = Ok(Whole(6))
        /\ input = Example(<<"3">>, <<"*">>, <<"7">>) => result = Ok(Whole(21))
        /\ input = Example(<<"1", "5">>, <<"/">>, <<"3">>) => result = Ok(Whole(5))

\* "10 - 4" has been evaluated, to 6
C1_Witness ==
    /\ Returned
    /\ input = Example(<<"1", "0">>, <<"-">>, <<"4">>)
    /\ result.ok
    /\ result.val = Whole(6)

\* C2: an input whose token count is not 3 fails with the format error, whatever
\* its tokens are.
C2_WrongCountIsFormatError ==
    (Returned /\ ~IsTriple) => result = Err(FormatMsg, <<>>)

\* "5 + 3 + 2", five tokens that would evaluate pairwise, has been rejected
C2_Witness ==
    /\ Returned
    /\ input = Line(<< <<"5">>, <<"+">>, <<"3">>, <<"+">>, <<"2">> >>)
    /\ ~result.ok
    /\ result.msg = FormatMsg

\* C3 as stated: every three-token input whose operator is not one of + - * /
\* fails with the unsupported-operator error carrying that operator.
C3_AnyUnsupportedOperator ==
    (Returned /\ IsTriple /\ ~Supported) => result = Err(UnsupportedMsg, Parts[2])

\* C3, amended: a three-token input whose two operands parse as numbers and
\* whose operator is not one of + - * / fails with the unsupported-operator
\* error carrying that operator.
C3_UnsupportedOperatorAfterOperands ==
    (Returned /\ IsTriple /\ LeftParses /\ RightParses /\ ~Supported)
        => result = Err(UnsupportedMsg, Parts[2])

\* "5 % 3" has been rejected for its operator
C3_Witness ==
    /\ Returned
    /\ input = Example(<<"5">>, <<"%">>, <<"3">>)
    /\ result = Err(UnsupportedMsg, <<"%">>)

\* C4: a three-token input with an operand token that does not parse as a
\* number fails with the number-parse error, which names an operand token of the
\* input that does not parse, by its original text.
C4_UnparseableOperandNamed ==
    (Returned /\ IsTriple /\ (~LeftParses \/ ~RightParses))
        => /\ ~result.ok
           /\ result.msg = NotNumberMsg
           /\ result.arg \in {Parts[1], Parts[3]}
           /\ ~ParseF64(result.arg).ok

\* "5 + abc", with the unparseable token on the right, has been rejected for it
C4_Witness ==
    /\ Returned
    /\ input = Example(<<"5">>, <<"+">>, <<"a", "b", "c">>)
    /\ result = Err(NotNumberMsg, <<"a", "b", "c">>)

\* C5: with three tokens and two parseable operands, / fails with the
\* divide-by-zero error exactly when the right operand is zero and succeeds
\* otherwise ("10 / 0" fails, "0 / 10" gives 0); + - * never give that error.
C5_DivideByZeroIffRightZero ==
    Returned =>
        /\ (IsTriple /\ LeftParses /\ RightParses /\ Parts[2] = <<"/">>)
            => /\ (result = Err(DivZeroMsg, <<>>)) <=> (Finite(Right) /\ Right.n = 0)
               /\ result.ok <=> ~(Finite(Right) /\ Right.n = 0)
        /\ (IsTriple /\ LeftParses /\ RightParses /\ Parts[2] # <<"/">>)
            => result.msg # DivZeroMsg
        /\ input = Example(<<"1", "0">>, <<"/">>, <<"0">>) => result = Err(DivZeroMsg, <<>>)
        /\ input = Example(<<"0">>, <<"/">>, <<"1", "0">>) => result = Ok(Whole(0))

\* "0 / 10", a zero on the left only, has been evaluated to 0
C5_Witness ==
    /\ Returned
    /\ input = Example(<<"0">>, <<"/">>, <<"1", "0">>)
    /\ result.ok
    /\ IsZero(result.val)

\* C10: one error per input, by precedence: the token count, then the left
\* operand, then the right operand, then the operator or, under /, a zero
\* divisor.
C10_ErrorPrecedence ==
    Returned =>
        /\ ~IsTriple => result = Err(FormatMsg, <<>>)
        /\ (IsTriple /\ ~LeftParses) => result = Err(NotNumberMsg, Parts[1])
        /\ (IsTriple /\ LeftParses /\ ~RightParses) => result = Err(NotNumberMsg, Parts[3])
        /\ (IsTriple /\ LeftParses /\ RightParses /\ ~Supported)
            => result = Err(UnsupportedMsg, Parts[2])
        /\ (IsTriple /\ LeftParses /\ RightParses /\ Parts[2] = <<"/">> /\ IsZero(Right))
            => result = Err(DivZeroMsg, <<>>)
        /\ (IsTriple /\ LeftParses /\ RightParses /\ Supported
                /\ ~(Parts[2] = <<"/">> /\ IsZero(Right)))
            => result.ok

\* "abc % .", wrong in both operands and in the operator, has been rejected
\* for its left operand
C10_Witness ==
    /\ Returned
    /\ input = Example(<<"a", "b", "c">>, <<"%">>, <<".">>)
    /\ result = Err(NotNumberMsg, <<"a", "b", "c">>)

-----------------------------------------------------------------------------
(* Properties of the interactive loop, under Spec                          *)

Last(q) == q[Len(q)]

IsOutcome(o) == o.kind \in {"Result", "Error"}

\* the Result and Error lines printed so far, in order
Outcomes == SelectSeq(out, IsOutcome)

\* what the loop has printed after the two banner lines
Body == SubSeq(out, 3, Len(out))

\* the reads whose line the loop has finished with; the last read is still
\* being looked at while pc = "check", and a quit line is never finished with
Completed == Len(consumed) - (IF pc \in {"check", "done"} THEN 1 ELSE 0)

\* the line spells quit in some letter case between optional whitespace
SpellsQuit(line) ==
    \E i \in 1..(Len(line) - 3) :
        /\ line[i] \in {"q", "Q"}
        /\ line[i + 1] \in {"u", "U"}
        /\ line[i + 2] \in {"i", "I"}
        /\ line[i + 3] \in {"t", "T"}
        /\ \A k \in 1..Len(line) : (k < i \/ k > i + 3) => IsWhitespace(line[k])

\* C6: every evaluator error is recovered. Each line the loop has finished with
\* has exactly one Result or Error line, printed before the next prompt and
\* read; after an Error line the loop is at its top; the loop ends only on quit
\* or on a failed read.
C6_ErrorsRecovered ==
    /\ Len(Outcomes) = Completed
    /\ \A i \in 1..Len(Body) :
            IF i % 2 = 1 THEN Body[i].kind = "Prompt"
            ELSE /\ Body[i].kind \in {"Result", "Error", "Goodbye"}
                 /\ Body[i].kind = "Goodbye" => i = Len(Body)
    /\ \A i \in 1..Len(Outcomes) :
            /\ Outcomes[i].kind = "Error" <=> ~parse_and_calculate(Trim(consumed[i])).ok
            /\ Outcomes[i].kind = "Error" => Outcomes[i].res.msg # ""
    /\ (Last(out).kind = "Error") => pc = "prompt"
    /\ (pc = "read") => Last(out).kind = "Prompt"
    /\ (pc = "done") => (Last(out).kind = "Goodbye" /\ SpellsQuit(Last(consumed)))
    /\ (pc = "panicked") => stream = "fault"

\* an error of each kind has been printed and a later line read and evaluated
C6_Witness ==
    /\ Len(Outcomes) = 3
    /\ Outcomes[1].res.msg = DivZeroMsg
    /\ Outcomes[2].res.msg = NotNumberMsg
    /\ Outcomes[3].kind = "Result"
    /\ pc = "prompt"

\* C7: the end of the input stream, or a failed read, ends the loop: once
\* read_line has reported either, the loop neither prompts nor evaluates again.
C7_StreamEndIsFatal ==
    stream \in {"eof", "fault"} => pc \in {"check", "done", "panicked"}

\* C8: a line that spells quit prints the farewell and ends the loop; it gets no
\* Result or Error line and no line is read after it. Every other line is
\* evaluated and the loop goes on.
C8_QuitTerminates ==
    /\ \A i \in 1..Len(consumed) :
            SpellsQuit(consumed[i]) => (i = Len(consumed) /\ pc \in {"check", "done"})
    /\ (pc = "done") =>
            /\ SpellsQuit(Last(consumed))
            /\ Last(out).kind = "Goodbye"
            /\ Len(Outcomes) = Len(consumed) - 1
    /\ Len(SelectSeq(out, LAMBDA o : o.kind = "Goodbye")) = (IF pc = "done" THEN 1 ELSE 0)
    /\ \A i \in 1..Len(consumed) :
            (i < Len(consumed) \/ pc \in {"prompt", "read", "panicked"})
                => /\ ~SpellsQuit(consumed[i])
                   /\ i <= Len(Outcomes)
                   /\ Outcomes[i].res = parse_and_calculate(Trim(consumed[i]))

\* "quit now" has been evaluated, and " Quit " has then ended the loop
C8_Witness ==
    /\ pc = "done"
    /\ Len(consumed) = 2
    /\ consumed[1] = Line(<< QuitWord, <<"n", "o", "w">> >>)
    /\ Outcomes[1].kind = "Error"
    /\ consumed[2] = <<" ", "Q", "u", "i", "t", " ">>
    /\ Last(out).kind = "Goodbye"

\* C9: the outcome printed for a line depends on its text alone: two lines of
\* the same text get the same outcome wherever they stand in the session.
C9_OutcomeDependsOnLineOnly ==
    \A i, j \in 1..Len(Outcomes) :
        consumed[i] = consumed[j] => Outcomes[i] = Outcomes[j]

\* "5 + 3" has been evaluated first and again after a failed "10 / 0"
C9_Witness ==
    /\ Len(Outcomes) = 3
    /\ consumed[1] = Line(<< <<"5">>, <<"+">>, <<"3">> >>)
    /\ consumed[2] = Line(<< <<"1", "0">>, <<"/">>, <<"0">> >>)
    /\ consumed[3] = consumed[1]
    /\ Outcomes[2].kind = "Error"
    /\ Outcomes[3] = Printed("Result", Ok(Whole(8)))

====
